---- MODULE Spec2Model ----
(***************************************************************************)
(* Request-classification and deception pipeline of the backend service:   *)
(* sentinel.py (detectors and tables), main.py (security_middleware,       *)
(* log_requests, save_security_event) and alerting.py                      *)
(* (send_security_alert), run by one asyncio event loop.                   *)
(*                                                                         *)
(* Strings are sequences of one-character strings, so that lower(),        *)
(* rstrip("/"), startswith(), "in" and the regular expressions are         *)
(* computed character by character as Python computes them.                *)
(***************************************************************************)
EXTENDS Integers, Sequences, FiniteSets, TLC

None == "None"

(***************************************************************************)
(* String primitives (Python str methods used by sentinel.py)              *)
(***************************************************************************)
UpperChars == <<"A", "B", "C", "D", "E", "F", "G", "H", "I", "J", "K", "L", "M", "N", "O", "P", "Q", "R", "S", "T", "U", "V", "W", "X", "Y", "Z">>

LowerChars == <<"a", "b", "c", "d", "e", "f", "g", "h", "i", "j", "k", "l", "m", "n", "o", "p", "q", "r", "s", "t", "u", "v", "w", "x", "y", "z">>

Digits == {"0", "1", "2", "3", "4", "5", "6", "7", "8", "9"}

\* the character U+0060, which a TLA+ string literal cannot hold
Backtick == "backtick"

\* str.lower() on one character
LowerChar(c) ==
  IF \E i \in 1..26 : UpperChars[i] = c
    THEN LowerChars[CHOOSE i \in 1..26 : UpperChars[i] = c]
    ELSE c

\* str.lower()
Lower(s) == [i \in 1..Len(s) |-> LowerChar(s[i])]

\* str.rstrip("/"): every trailing slash is removed
RECURSIVE RStripSlash(_)
RStripSlash(s) ==
  IF Len(s) > 0 /\ s[Len(s)] = "/"
    THEN RStripSlash(SubSeq(s, 1, Len(s) - 1))
    ELSE s

\* str.startswith(prefix)
StartsWith(s, prefix) ==
  /\ Len(prefix) <= Len(s)
  /\ SubSeq(s, 1, Len(prefix)) = prefix

\* the text t occurs in s at position i (1-based)
At(s, i, t) ==
  /\ i >= 1
  /\ i + Len(t) - 1 <= Len(s)
  /\ SubSeq(s, i, i + Len(t) - 1) = t

\* Python "t in s"
Contains(s, t) == \E i \in 1..(Len(s) + 1) : At(s, i, t)

(***************************************************************************)
(* Static tables of sentinel.py, in registration (dict insertion) order    *)
(***************************************************************************)
MONITORED_PATHS ==
  << <<<<"/", "a", "d", "m", "i", "n">>, "admin_panel">>,
     <<<<"/", "a", "d", "m", "i", "n", "i", "s", "t", "r", "a", "t", "o", "r">>, "admin_panel">>,
     <<<<"/", "w", "p", "-", "a", "d", "m", "i", "n">>, "cms_admin">>,
     <<<<"/", "w", "p", "-", "l", "o", "g", "i", "n", ".", "p", "h", "p">>, "cms_admin">>,
     <<<<"/", "w", "p", "-", "c", "o", "n", "t", "e", "n", "t">>, "cms_admin">>,
     <<<<"/", "p", "h", "p", "m", "y", "a", "d", "m", "i", "n">>, "db_interface">>,
     <<<<"/", "p", "m", "a">>, "db_interface">>,
     <<<<"/", "m", "y", "s", "q", "l">>, "db_interface">>,
     <<<<"/", "a", "d", "m", "i", "n", "e", "r">>, "db_interface">>,
     <<<<"/", "a", "d", "m", "i", "n", "e", "r", ".", "p", "h", "p">>, "db_interface">>,
     <<<<"/", ".", "e", "n", "v">>, "config_file">>,
     <<<<"/", ".", "e", "n", "v", ".", "l", "o", "c", "a", "l">>, "config_file">>,
     <<<<"/", ".", "e", "n", "v", ".", "p", "r", "o", "d", "u", "c", "t", "i", "o", "n">>, "config_file">>,
     <<<<"/", ".", "g", "i", "t", "/", "c", "o", "n", "f", "i", "g">>, "vcs_config">>,
     <<<<"/", ".", "g", "i", "t", "/", "H", "E", "A", "D">>, "vcs_config">>,
     <<<<"/", ".", "a", "w", "s", "/", "c", "r", "e", "d", "e", "n", "t", "i", "a", "l", "s">>, "cloud_config">>,
     <<<<"/", "c", "o", "n", "f", "i", "g", ".", "j", "s", "o", "n">>, "config_file">>,
     <<<<"/", "s", "e", "t", "t", "i", "n", "g", "s", ".", "j", "s", "o", "n">>, "config_file">>,
     <<<<"/", "b", "a", "c", "k", "u", "p", ".", "s", "q", "l">>, "data_file">>,
     <<<<"/", "d", "u", "m", "p", ".", "s", "q", "l">>, "data_file">>,
     <<<<"/", "d", "b", ".", "s", "q", "l">>, "data_file">>,
     <<<<"/", "d", "a", "t", "a", "b", "a", "s", "e", ".", "s", "q", "l">>, "data_file">>,
     <<<<"/", "u", "s", "e", "r", "s", ".", "s", "q", "l">>, "data_file">>,
     <<<<"/", "d", "e", "b", "u", "g">>, "debug_path">>,
     <<<<"/", "t", "r", "a", "c", "e">>, "debug_path">>,
     <<<<"/", "a", "c", "t", "u", "a", "t", "o", "r">>, "actuator">>,
     <<<<"/", "a", "c", "t", "u", "a", "t", "o", "r", "/", "h", "e", "a", "l", "t", "h">>, "actuator">>,
     <<<<"/", "m", "e", "t", "r", "i", "c", "s">>, "metrics">>,
     <<<<"/", "_", "d", "e", "b", "u", "g">>, "debug_path">>,
     <<<<"/", "s", "h", "e", "l", "l">>, "exec_path">>,
     <<<<"/", "s", "h", "e", "l", "l", ".", "p", "h", "p">>, "exec_path">>,
     <<<<"/", "c", "m", "d">>, "exec_path">>,
     <<<<"/", "e", "x", "e", "c">>, "exec_path">>,
     <<<<"/", "c", "o", "n", "s", "o", "l", "e">>, "exec_path">>,
     <<<<"/", "t", "e", "r", "m", "i", "n", "a", "l">>, "exec_path">>,
     <<<<"/", "a", "p", "i", "/", "a", "d", "m", "i", "n">>, "api_admin">>,
     <<<<"/", "a", "p", "i", "/", "v", "1", "/", "a", "d", "m", "i", "n">>, "api_admin">>,
     <<<<"/", "a", "p", "i", "/", "c", "o", "n", "f", "i", "g">>, "api_config">> >>

\* the decoy payloads are inert fixtures; each is named by a token
STATIC_RESPONSES ==
  << <<<<"/", ".", "e", "n", "v">>, "ENV_FIXTURE">>,
     <<<<"/", "c", "o", "n", "f", "i", "g", ".", "j", "s", "o", "n">>, "CONFIG_JSON_FIXTURE">>,
     <<<<"/", "b", "a", "c", "k", "u", "p", ".", "s", "q", "l">>, "BACKUP_SQL_FIXTURE">>,
     <<<<"/", ".", "g", "i", "t", "/", "c", "o", "n", "f", "i", "g">>, "GIT_CONFIG_FIXTURE">> >>

SCANNER_SIGNATURES ==
  << <<"s", "q", "l", "m", "a", "p">>,
     <<"n", "i", "k", "t", "o">>,
     <<"n", "m", "a", "p">>,
     <<"m", "a", "s", "s", "c", "a", "n">>,
     <<"d", "i", "r", "b", "u", "s", "t", "e", "r">>,
     <<"g", "o", "b", "u", "s", "t", "e", "r">>,
     <<"w", "f", "u", "z", "z">>,
     <<"h", "y", "d", "r", "a">>,
     <<"b", "u", "r", "p">>,
     <<"z", "a", "p", "r", "o", "x", "y">>,
     <<"a", "c", "u", "n", "e", "t", "i", "x">>,
     <<"n", "e", "s", "s", "u", "s">>,
     <<"o", "p", "e", "n", "v", "a", "s">>,
     <<"w", "3", "a", "f">>,
     <<"s", "k", "i", "p", "f", "i", "s", "h">>,
     <<"h", "a", "v", "i", "j">>,
     <<"p", "a", "n", "g", "o", "l", "i", "n">>,
     <<"w", "e", "b", "s", "c", "a", "r", "a", "b">>,
     <<"p", "a", "r", "o", "s">> >>


(***************************************************************************)
(* Enumerations of sentinel.py                                             *)
(***************************************************************************)
LOW == "low"

MEDIUM == "medium"

HIGH == "high"

CRITICAL == "critical"

ENDPOINT == "endpoint_sensor"

PATTERN == "pattern_match"

USER_AGENT == "ua_analysis"

(***************************************************************************)
(* Detectors of sentinel.py                                                *)
(***************************************************************************)
\* a slip the code does not make: no exact pass, the first prefix always wins
check_monitored_path_PrefixOnly(path) ==
  LET path_lower == RStripSlash(Lower(path))
      n == Len(MONITORED_PATHS)
  IN  IF \E i \in 1..n : StartsWith(path_lower, MONITORED_PATHS[i][1])
        THEN LET first == CHOOSE i \in 1..n :
                            /\ StartsWith(path_lower, MONITORED_PATHS[i][1])
                            /\ \A j \in 1..(i - 1) :
                                 ~StartsWith(path_lower, MONITORED_PATHS[j][1])
             IN  MONITORED_PATHS[first][2]
        ELSE None

\* check_monitored_path: exact match on the normalized path first, then the
\* first key, in dict order, that the normalized path starts with
check_monitored_path(path) ==
  LET path_lower == RStripSlash(Lower(path))
      n == Len(MONITORED_PATHS)
  IN  IF \E i \in 1..n : MONITORED_PATHS[i][1] = path_lower
        THEN MONITORED_PATHS[CHOOSE i \in 1..n : MONITORED_PATHS[i][1] = path_lower][2]
        ELSE IF \E i \in 1..n : StartsWith(path_lower, MONITORED_PATHS[i][1])
          THEN LET first == CHOOSE i \in 1..n :
                              /\ StartsWith(path_lower, MONITORED_PATHS[i][1])
                              /\ \A j \in 1..(i - 1) :
                                   ~StartsWith(path_lower, MONITORED_PATHS[j][1])
               IN  MONITORED_PATHS[first][2]
          ELSE None

\* a slip the code does not make: the lookup keeps the trailing slash
get_static_response_NoStrip(path) ==
  LET path_lower == Lower(path)
      n == Len(STATIC_RESPONSES)
  IN  IF \E i \in 1..n : STATIC_RESPONSES[i][1] = path_lower
        THEN STATIC_RESPONSES[CHOOSE i \in 1..n : STATIC_RESPONSES[i][1] = path_lower][2]
        ELSE None

\* get_static_response: STATIC_RESPONSES.get(normalized path)
get_static_response(path) ==
  LET path_lower == RStripSlash(Lower(path))
      n == Len(STATIC_RESPONSES)
  IN  IF \E i \in 1..n : STATIC_RESPONSES[i][1] = path_lower
        THEN STATIC_RESPONSES[CHOOSE i \in 1..n : STATIC_RESPONSES[i][1] = path_lower][2]
        ELSE None

\* character classes of Python's re: \s, \d, \w (ASCII part)
SpaceChars == {" ", "\t", "\n", "\r", "\f"}

WordChars ==
  Digits \cup {"_"} \cup {LowerChars[i] : i \in 1..26} \cup {UpperChars[i] : i \in 1..26}

IsDigit(c) == c \in Digits

IsWord(c) == c \in WordChars

\* position reached from i by a greedy run of characters of the class
Skip(s, i, class) ==
  CHOOSE j \in i..(Len(s) + 1) :
    /\ \A k \in i..(j - 1) : s[k] \in class
    /\ j = Len(s) + 1 \/ s[j] \notin class

SkipSpaces(s, i) == Skip(s, i, SpaceChars)

\* \bword\b for a word made of word characters
WordAt(s, i, w) ==
  /\ At(s, i, w)
  /\ i = 1 \/ ~IsWord(s[i - 1])
  /\ i + Len(w) > Len(s) \/ ~IsWord(s[i + Len(w)])

\* (\bunion\b.*\bselect\b|\bor\b\s+\d+\s*=\s*\d+|'\s*or\s*'|--\s*$|;\s*drop\s+table)
sql_pattern(s) ==
  \E i \in 1..Len(s) :
    \/ /\ WordAt(s, i, <<"u", "n", "i", "o", "n">>)
       /\ \E j \in (i + 5)..Len(s) :
            /\ WordAt(s, j, <<"s", "e", "l", "e", "c", "t">>)
            /\ \A k \in (i + 5)..(j - 1) : s[k] # "\n"
    \/ /\ WordAt(s, i, <<"o", "r">>)
       /\ LET b == SkipSpaces(s, i + 2)
              c == Skip(s, b, Digits)
              d == SkipSpaces(s, c)
          IN  /\ b > i + 2
              /\ c > b
              /\ At(s, d, <<"=">>)
              /\ LET e == SkipSpaces(s, d + 1)
                 IN  e <= Len(s) /\ IsDigit(s[e])
    \/ /\ At(s, i, <<"'">>)
       /\ LET b == SkipSpaces(s, i + 1)
          IN  /\ At(s, b, <<"o", "r">>)
              /\ At(s, SkipSpaces(s, b + 2), <<"'">>)
    \/ /\ At(s, i, <<"-", "-">>)
       /\ SkipSpaces(s, i + 2) = Len(s) + 1
    \/ /\ At(s, i, <<";">>)
       /\ LET b == SkipSpaces(s, i + 1)
              c == SkipSpaces(s, b + 4)
          IN  /\ At(s, b, <<"d", "r", "o", "p">>)
              /\ c > b + 4
              /\ At(s, c, <<"t", "a", "b", "l", "e">>)

\* (\.\.\/|\.\.\\|%2e%2e%2f|%2e%2e\/|\.\.%2f)
traversal_pattern(s) ==
  \/ Contains(s, <<".", ".", "/">>)
  \/ Contains(s, <<".", ".", "\\">>)
  \/ Contains(s, <<"%", "2", "e", "%", "2", "e", "%", "2", "f">>)
  \/ Contains(s, <<"%", "2", "e", "%", "2", "e", "/">>)
  \/ Contains(s, <<".", ".", "%", "2", "f">>)

\* (<script|javascript:|on\w+\s*=|<svg|<img[^>]+onerror)
script_pattern(s) ==
  \/ Contains(s, <<"<", "s", "c", "r", "i", "p", "t">>)
  \/ Contains(s, <<"j", "a", "v", "a", "s", "c", "r", "i", "p", "t", ":">>)
  \/ \E i \in 1..Len(s) :
       /\ At(s, i, <<"o", "n">>)
       /\ LET b == Skip(s, i + 2, WordChars)
          IN  b > i + 2 /\ At(s, SkipSpaces(s, b), <<"=">>)
  \/ Contains(s, <<"<", "s", "v", "g">>)
  \/ \E i \in 1..Len(s) :
       /\ At(s, i, <<"<", "i", "m", "g">>)
       /\ \E j \in (i + 5)..Len(s) :
            /\ At(s, j, <<"o", "n", "e", "r", "r", "o", "r">>)
            /\ \A k \in (i + 4)..(j - 1) : s[k] # ">"

\* (;\s*\w+|`[^`]+`|\$\([^)]+\)|\|\||\&\&)
injection_pattern(s) ==
  \/ \E i \in 1..Len(s) :
       /\ At(s, i, <<";">>)
       /\ LET b == SkipSpaces(s, i + 1)
          IN  b <= Len(s) /\ IsWord(s[b])
  \/ \E i \in 1..Len(s) :
       /\ At(s, i, <<Backtick>>)
       /\ \E j \in (i + 2)..Len(s) :
            /\ s[j] = Backtick
            /\ \A k \in (i + 1)..(j - 1) : s[k] # Backtick
  \/ \E i \in 1..Len(s) :
       /\ At(s, i, <<"$", "(">>)
       /\ \E j \in (i + 3)..Len(s) :
            /\ s[j] = ")"
            /\ \A k \in (i + 2)..(j - 1) : s[k] # ")"
  \/ Contains(s, <<"|", "|">>)
  \/ Contains(s, <<"&", "&">>)

\* (%00|\\x00|\\0)
null_pattern(s) ==
  \/ Contains(s, <<"%", "0", "0">>)
  \/ Contains(s, <<"\\", "x", "0", "0">>)
  \/ Contains(s, <<"\\", "0">>)

\* REQUEST_SIGNATURES, in dict order
REQUEST_SIGNATURES ==
  <<"sql_pattern", "traversal_pattern", "script_pattern", "injection_pattern",
    "null_pattern">>

\* re.search(REQUEST_SIGNATURES[sig_name], combined, re.IGNORECASE)
Search(sig_name, combined) ==
  CASE sig_name = "sql_pattern" -> sql_pattern(combined)
    [] sig_name = "traversal_pattern" -> traversal_pattern(combined)
    [] sig_name = "script_pattern" -> script_pattern(combined)
    [] sig_name = "injection_pattern" -> injection_pattern(combined)
    [] sig_name = "null_pattern" -> null_pattern(combined)

\* analyze_request(url, body = ""): names of the matching signatures, in
\* dict order, over lower(url + " " + body)
RECURSIVE MatchesFrom(_, _)
MatchesFrom(i, combined) ==
  IF i > Len(REQUEST_SIGNATURES)
    THEN <<>>
    ELSE (IF Search(REQUEST_SIGNATURES[i], combined)
            THEN <<REQUEST_SIGNATURES[i]>>
            ELSE <<>>) \o MatchesFrom(i + 1, combined)

analyze_request(url) == MatchesFrom(1, Lower(url \o <<" ">>))

\* check_user_agent: any(sig in user_agent.lower() for sig in SCANNER_SIGNATURES)
check_user_agent(user_agent) ==
  \E i \in 1..Len(SCANNER_SIGNATURES) :
    Contains(Lower(user_agent), SCANNER_SIGNATURES[i])

\* a slip the code does not make: the patterns are looked at before the path
calculate_threat_level_PatternsFirst(path_match, patterns, scanner_ua) ==
  IF Len(patterns) >= 2 THEN CRITICAL
  ELSE IF patterns # <<>> THEN MEDIUM
  ELSE IF path_match THEN HIGH
  ELSE LOW

\* calculate_threat_level(path_match, patterns, scanner_ua)
calculate_threat_level(path_match, patterns, scanner_ua) ==
  IF path_match THEN HIGH
  ELSE IF Len(patterns) >= 2 THEN CRITICAL
  ELSE IF patterns # <<>> THEN MEDIUM
  ELSE IF scanner_ua THEN LOW
  ELSE LOW

(***************************************************************************)
(* Requests                                                                *)
(***************************************************************************)
\* number of requests the service receives
MaxReqs == 2

Reqs == 1..MaxReqs

\* request.url.path
ENV_UPPER == <<"/", ".", "E", "N", "V", "/">>

ENV_LOCAL == <<"/", ".", "e", "n", "v", ".", "l", "o", "c", "a", "l">>

ADMIN_USERS == <<"/", "a", "d", "m", "i", "n", "/", "u", "s", "e", "r", "s">>

PRODUCTS == <<"/", "p", "r", "o", "d", "u", "c", "t", "s">>

HEALTH == <<"/", "h", "e", "a", "l", "t", "h">>

\* the raw query of request.url (empty: no query)
NO_QUERY == <<>>

SQLI == <<"i", "d", "=", "'", " ", "O", "R", " ", "1", "=", "1", "-", "-">>

SQLI_TRAVERSAL == <<"i", "d", "=", "'", " ", "O", "R", " ", "1", "=", "1", "-", "-", "&", "f", "=", ".", ".", "/", "x">>

\* request.headers.get("user-agent", "")
BROWSER == <<"M", "o", "z", "i", "l", "l", "a", "/", "5", ".", "0">>

SCANNER == <<"S", "Q", "L", "M", "a", "p", "/", "1", ".", "2">>

Request(path, query, user_agent) ==
  [path |-> path, query |-> query, user_agent |-> user_agent]

\* no request received yet
NoRequest == Request(<<>>, <<>>, <<>>)

\* the requests a client sends: monitored paths (decoy registered, exact key
\* without decoy, prefix match only), unmonitored paths with zero, one and two
\* signature matches, with and without a scanner user agent, and health checks
Requests ==
  { Request(ENV_UPPER, SQLI_TRAVERSAL, SCANNER),
    Request(ENV_LOCAL, NO_QUERY, SCANNER),
    Request(ADMIN_USERS, SQLI, BROWSER),
    Request(PRODUCTS, NO_QUERY, BROWSER),
    Request(PRODUCTS, SQLI, BROWSER),
    Request(PRODUCTS, SQLI_TRAVERSAL, SCANNER),
    Request(PRODUCTS, NO_QUERY, SCANNER),
    Request(HEALTH, NO_QUERY, BROWSER),
    Request(HEALTH, NO_QUERY, SCANNER) }

Paths == { q.path : q \in Requests }

\* scheme and host of request.url
BASE_URL == <<"h", "t", "t", "p", ":", "/", "/", "s", "v", "c">>

\* str(request.url)
FullUrl(q) ==
  BASE_URL \o q.path \o (IF q.query = <<>> THEN <<>> ELSE <<"?">> \o q.query)

(***************************************************************************)
(* security_middleware: classification (main.py, layers 1 to 3)            *)
(***************************************************************************)
\* f"path:{path_category}"
PathIndicator(category) == <<"path:", category>>

\* f"sig:{p}"
SigIndicator(p) == <<"sig:", p>>

ScannerIndicator == <<"scanner_signature">>

\* the locals before layer 1
InitialResult ==
  [indicators |-> <<>>, threat_level |-> LOW, sensor_type |-> None,
   path_category |-> None]

\* the body of "if path_category:" up to the event
Layer1(acc, path_category) ==
  [indicators |-> Append(acc.indicators, PathIndicator(path_category)),
   threat_level |-> HIGH,
   sensor_type |-> ENDPOINT,
   path_category |-> path_category]

\* ThreatLevel.MEDIUM if len(patterns) == 1 else ThreatLevel.CRITICAL
PatternLevel_AlwaysMedium(patterns) == MEDIUM

PatternLevel(patterns) == IF Len(patterns) = 1 THEN MEDIUM ELSE CRITICAL

\* layer 2: request pattern analysis
Layer2(acc, q) ==
  LET patterns == analyze_request(FullUrl(q))
  IN  IF patterns # <<>>
        THEN [acc EXCEPT
                !.indicators =
                   acc.indicators \o [i \in 1..Len(patterns) |-> SigIndicator(patterns[i])],
                !.threat_level = PatternLevel(patterns),
                !.sensor_type = PATTERN]
        ELSE acc

\* a slip the code does not make: a scanner hit resets the level and the sensor
Layer3_Downgrade(acc, q) ==
  IF check_user_agent(q.user_agent)
    THEN [acc EXCEPT
            !.indicators = Append(acc.indicators, ScannerIndicator),
            !.threat_level = LOW,
            !.sensor_type = USER_AGENT]
    ELSE acc

\* layer 3: client signature check
Layer3(acc, q) ==
  IF check_user_agent(q.user_agent)
    THEN [acc EXCEPT
            !.indicators = Append(acc.indicators, ScannerIndicator),
            !.threat_level = IF acc.threat_level = LOW THEN LOW ELSE acc.threat_level,
            !.sensor_type = IF acc.sensor_type # None THEN acc.sensor_type ELSE USER_AGENT]
    ELSE acc

\* a slip the code does not make: layers 2 and 3 also run on a monitored path
ClassifyRequest_FallThrough(q) ==
  LET path_category == check_monitored_path(q.path)
  IN  IF path_category # None
        THEN Layer3(Layer2(Layer1(InitialResult, path_category), q), q)
        ELSE Layer3(Layer2(InitialResult, q), q)

\* indicators, threat_level, sensor_type and path_category of a request:
\* layer 1 returns from the middleware, so layers 2 and 3 run only without a
\* path category
ClassifyRequest(q) ==
  LET path_category == check_monitored_path(q.path)
  IN  IF path_category # None
        THEN Layer1(InitialResult, path_category)
        ELSE Layer3(Layer2(InitialResult, q), q)

\* None in a field that holds a path
NonePath == <<"None">>

\* a slip the code does not make: triggered_path set on every event
SecurityEvent_AlwaysTriggered(q, res) ==
  [threat_level |-> res.threat_level,
   sensor_type |-> res.sensor_type,
   triggered_path |-> q.path,
   path_category |-> res.path_category,
   path |-> q.path,
   user_agent |-> q.user_agent,
   indicators |-> res.indicators]

\* SecurityEvent(...) as built by the middleware (timestamp, ip_address,
\* method, query_string and headers are carried along and never read)
SecurityEvent(q, res) ==
  [threat_level |-> res.threat_level,
   sensor_type |-> res.sensor_type,
   triggered_path |-> IF res.path_category # None THEN q.path ELSE NonePath,
   path_category |-> res.path_category,
   path |-> q.path,
   user_agent |-> q.user_agent,
   indicators |-> res.indicators]

\* an event is saved in the layer-1 branch, and after layer 3 under
\* "if indicators and not path_category"
SavesEvent_Always(res) == TRUE

SavesEvent(res) ==
  \/ res.path_category # None
  \/ res.indicators # <<>> /\ res.path_category = None

\* send_security_alert is scheduled in the layer-1 branch only
SendsAlert_AnyIndicator(res) == res.indicators # <<>>

SendsAlert(res) == res.path_category # None

(***************************************************************************)
(* security_middleware: response                                           *)
(***************************************************************************)
\* delayed_response(delay): asyncio.sleep(delay), then 500
delayed_response(delay) ==
  [kind |-> "TARPIT", delay |-> delay, status |-> 500,
   body |-> "Internal Server Error"]

\* call_next(request): the route handler answers
\* (status 0: the status is the route's, not set by the middleware)
PASS_THROUGH == [kind |-> "PASS_THROUGH", delay |-> 0, status |-> 0, body |-> None]

\* no response yet
NO_RESPONSE == [kind |-> "NONE", delay |-> 0, status |-> 0, body |-> None]

\* an exception leaving the middleware stack: the server's 500
SERVER_ERROR == [kind |-> "ERROR", delay |-> 0, status |-> 500, body |-> None]

\* a slip the code does not make: the two delays exchanged
MonitoredResponse_DelaysSwapped(path) ==
  LET static_content == get_static_response(path)
  IN  IF static_content # None
        THEN [kind |-> "DECOY", delay |-> 5, status |-> 200, body |-> static_content]
        ELSE delayed_response(2)

\* layer-1 branch: static content after sleep(2), else delayed_response(5)
MonitoredResponse(path) ==
  LET static_content == get_static_response(path)
  IN  IF static_content # None
        THEN [kind |-> "DECOY", delay |-> 2, status |-> 200, body |-> static_content]
        ELSE delayed_response(5)

\* a slip the code does not make: stalling a request flagged CRITICAL
UnmonitoredResponse_TarpitCritical(res) ==
  IF res.threat_level = CRITICAL THEN delayed_response(5) ELSE PASS_THROUGH

\* without a path category the request continues to normal processing
UnmonitoredResponse(res) == PASS_THROUGH

ResponseFor(q, res) ==
  IF res.path_category # None
    THEN MonitoredResponse(q.path)
    ELSE UnmonitoredResponse(res)

\* save_security_event: try/except Exception around the append
SaveRaises_Uncaught(outcome) == outcome = "error"

SaveRaises(outcome) == FALSE

(***************************************************************************)
(* log_requests                                                            *)
(***************************************************************************)
HEALTH_PATH == <<"/", "h", "e", "a", "l", "t", "h">>

\* if path == "/health": return await call_next(request)
LogsRequest(path) == path # HEALTH_PATH

(***************************************************************************)
(* State                                                                   *)
(***************************************************************************)
VARIABLES
  webhook,   \* DISCORD_WEBHOOK_URL is set
  req,       \* the request of each connection, NoRequest before it arrives
  result,    \* the middleware's locals after classification
  pc,        \* where the request's coroutine stands
  busy,      \* the request whose blocking Firestore call holds the event loop, 0: none
  offered,   \* the events handed to db.collection("security_events").add
  sink,      \* state of the request's event append
  action,    \* the response security_middleware decided
  response,  \* the response delivered to the client
  alert,     \* state of the request's send_security_alert task
  posts,     \* POSTs made to the webhook for the request
  logged,    \* log_requests handed a log entry to db.collection("api_logs").add
  probe      \* the last direct call of the detectors and what it returned

vars ==
  <<webhook, req, result, pc, busy, offered, sink, action, response, alert,
    posts, logged, probe>>

\* db.collection(...).add returns or raises; no timeout is passed to it
SinkOutcomes == {"ok", "error"}

\* client.post(..., timeout=10.0) returns 204, returns another status, raises,
\* or times out after 10 s
PostOutcomes == {"204", "other_status", "exception", "timeout"}

\* a coroutine runs when no synchronous call holds the event loop; a
\* coroutine suspended in asyncio.sleep holds nothing
LoopFree_SleepHolds(r) ==
  /\ busy = 0
  /\ \A o \in Reqs \ {r} : pc[o] # "sleep"

LoopFree(r) == busy = 0

\* if not DISCORD_WEBHOOK_URL: return False
AlertConfigured_Always(url_set) == TRUE

AlertConfigured(url_set) == url_set

\* send_security_alert: try/except Exception around the POST
AlertRaises_Uncaught(outcome) == outcome \in {"exception", "timeout"}

AlertRaises(outcome) == FALSE

\* no detector called directly yet
NoProbe ==
  [op |-> "none", path |-> <<>>, category |-> None, category_slash |-> None,
   content |-> None, content_slash |-> None, action |-> NO_RESPONSE,
   action_slash |-> NO_RESPONSE, request |-> NoRequest, patterns |-> <<>>,
   scanner_ua |-> FALSE, result |-> InitialResult, level |-> LOW]

Init ==
  /\ webhook \in BOOLEAN
  /\ req = [r \in Reqs |-> NoRequest]
  /\ result = [r \in Reqs |-> InitialResult]
  /\ pc = [r \in Reqs |-> "idle"]
  /\ busy = 0
  /\ offered = [r \in Reqs |-> <<>>]
  /\ sink = [r \in Reqs |-> "none"]
  /\ action = [r \in Reqs |-> NO_RESPONSE]
  /\ response = [r \in Reqs |-> NO_RESPONSE]
  /\ alert = [r \in Reqs |-> "none"]
  /\ posts = [r \in Reqs |-> 0]
  /\ logged = [r \in Reqs |-> FALSE]
  /\ probe = NoProbe

(***************************************************************************)
(* Steps of the event loop: each runs one coroutine from one suspension    *)
(* point to the next                                                       *)
(***************************************************************************)
\* security_middleware after the event is saved (or when none is): schedule
\* the alert task, decide the response, suspend in sleep or in call_next
Proceed(r, q, res) ==
  LET act == ResponseFor(q, res)
  IN  /\ alert' = IF SendsAlert(res) THEN [alert EXCEPT ![r] = "scheduled"] ELSE alert
      /\ action' = [action EXCEPT ![r] = act]
      /\ pc' = [pc EXCEPT ![r] = IF act.delay > 0 THEN "sleep" ELSE "call_next"]

\* what security_middleware computes for each request a client sends,
\* tabulated once
Classification == [q \in Requests |-> ClassifyRequest(q)]

\* a request arrives: log_requests calls into security_middleware, which
\* classifies it and, for a flagged request, calls save_security_event; the
\* synchronous Firestore append holds the event loop until it returns
Receive(r, q) ==
  /\ pc[r] = "idle"
  /\ LoopFree(r)
  /\ IF r = 1 THEN TRUE ELSE pc[r - 1] # "idle"
  /\ LET res == Classification[q]
     IN  /\ req' = [req EXCEPT ![r] = q]
         /\ result' = [result EXCEPT ![r] = res]
         /\ IF SavesEvent(res)
              THEN /\ offered' = [offered EXCEPT ![r] = Append(@, SecurityEvent(q, res))]
                   /\ sink' = [sink EXCEPT ![r] = "pending"]
                   /\ busy' = r
                   /\ pc' = [pc EXCEPT ![r] = "save_event"]
                   /\ UNCHANGED <<alert, action>>
              ELSE /\ Proceed(r, q, res)
                   /\ UNCHANGED <<offered, sink, busy>>
  /\ UNCHANGED <<webhook, response, posts, logged, probe>>

\* the event append returns or raises inside save_security_event, and the
\* middleware runs on to its next suspension point
SinkReturn(r, outcome) ==
  /\ pc[r] = "save_event"
  /\ busy = r
  /\ sink' = [sink EXCEPT ![r] = outcome]
  /\ busy' = 0
  /\ IF SaveRaises(outcome)
       THEN /\ action' = [action EXCEPT ![r] = SERVER_ERROR]
            /\ response' = [response EXCEPT ![r] = SERVER_ERROR]
            /\ pc' = [pc EXCEPT ![r] = "done"]
            /\ UNCHANGED alert
       ELSE /\ Proceed(r, req[r], result[r])
            /\ UNCHANGED response
  /\ UNCHANGED <<webhook, req, result, offered, posts, logged, probe>>

\* the response returns from security_middleware into log_requests, which
\* appends a log entry (synchronously) unless the path is /health
ReturnThroughLog(r) ==
  IF LogsRequest(req[r].path)
    THEN /\ pc' = [pc EXCEPT ![r] = "save_log"]
         /\ busy' = r
         /\ logged' = [logged EXCEPT ![r] = TRUE]
         /\ UNCHANGED response
    ELSE /\ pc' = [pc EXCEPT ![r] = "done"]
         /\ response' = [response EXCEPT ![r] = action[r]]
         /\ UNCHANGED <<busy, logged>>

\* asyncio.sleep(2) or asyncio.sleep(5) elapses and the decoy or the 500 is built
Wake(r) ==
  /\ pc[r] = "sleep"
  /\ LoopFree(r)
  /\ ReturnThroughLog(r)
  /\ UNCHANGED <<webhook, req, result, offered, sink, action, alert, posts, probe>>

\* call_next(request): the route handler answers
CallNext(r) ==
  /\ pc[r] = "call_next"
  /\ LoopFree(r)
  /\ ReturnThroughLog(r)
  /\ UNCHANGED <<webhook, req, result, offered, sink, action, alert, posts, probe>>

\* save_log_to_firestore returns (the append succeeded, or raised and was
\* caught) and log_requests returns the response
LogReturn(r) ==
  /\ pc[r] = "save_log"
  /\ busy = r
  /\ busy' = 0
  /\ pc' = [pc EXCEPT ![r] = "done"]
  /\ response' = [response EXCEPT ![r] = action[r]]
  /\ UNCHANGED <<webhook, req, result, offered, sink, action, alert, posts, logged,
                 probe>>

\* the task of send_security_alert starts: without a webhook it returns
\* False, otherwise it posts the payload and awaits the answer
AlertStart(r) ==
  /\ alert[r] = "scheduled"
  /\ LoopFree(r)
  /\ IF AlertConfigured(webhook)
       THEN /\ alert' = [alert EXCEPT ![r] = "posting"]
            /\ posts' = [posts EXCEPT ![r] = @ + 1]
       ELSE /\ alert' = [alert EXCEPT ![r] = "not_sent"]
            /\ UNCHANGED posts
  /\ UNCHANGED <<webhook, req, result, pc, busy, offered, sink, action, response,
                 logged, probe>>

\* the POST ends: True on 204, False on any other status, exception or
\* timeout; nothing is raised to the task and no second POST is made
AlertAnswer(r, outcome) ==
  /\ alert[r] = "posting"
  /\ LoopFree(r)
  /\ alert' = [alert EXCEPT ![r] = IF AlertRaises(outcome) THEN "raised"
                                   ELSE IF outcome = "204" THEN "sent"
                                   ELSE "not_sent"]
  /\ UNCHANGED <<webhook, req, result, pc, busy, offered, sink, action, response,
                 posts, logged, probe>>

Next ==
  \E r \in Reqs :
    \/ \E q \in Requests : Receive(r, q)
    \/ \E outcome \in SinkOutcomes : SinkReturn(r, outcome)
    \/ Wake(r)
    \/ CallNext(r)
    \/ LogReturn(r)
    \/ AlertStart(r)
    \/ \E outcome \in PostOutcomes : AlertAnswer(r, outcome)

Spec == Init /\ [][Next]_vars

\* The event loop runs every ready coroutine, a sleep elapses, a route handler
\* answers and the POST is bounded by its timeout.  The Firestore appends carry
\* no timeout of the program, so nothing obliges them to return.
FairSpec ==
  /\ Spec
  /\ \A r \in Reqs :
       /\ WF_vars(Wake(r))
       /\ WF_vars(CallNext(r))
       /\ WF_vars(AlertStart(r))
       /\ WF_vars(\E outcome \in PostOutcomes : AlertAnswer(r, outcome))

(***************************************************************************)
(* Direct calls of the detectors (the functions sentinel.py exports)       *)
(***************************************************************************)
\* the keys of MONITORED_PATHS as written in the table
KeyPaths == { MONITORED_PATHS[i][1] : i \in 1..Len(MONITORED_PATHS) }

ADMINER_UPPER == <<"/", "A", "D", "M", "I", "N", "E", "R", "/", "/">>

ROOT == <<"/">>

\* the paths the detectors are called with: every key, every key with a
\* trailing slash, below every key, every key with a letter appended, and
\* paths outside the table
ProbePaths ==
  KeyPaths
    \cup { k \o <<"/">> : k \in KeyPaths }
    \cup { k \o <<"/", "x">> : k \in KeyPaths }
    \cup { k \o <<"x">> : k \in KeyPaths }
    \cup { <<>>, ROOT, PRODUCTS, HEALTH, ENV_UPPER, ADMINER_UPPER }

TRAVERSAL == <<"f", "=", ".", ".", "/", "x">>

THREE_SIGNATURES == <<"x", "=", "<", "s", "c", "r", "i", "p", "t", ">", "&", "f", "=", ".", ".", "/", "x", "&", "i", "d", "=", "'", " ", "O", "R", " ", "1", "=", "1", "-", "-">>

FIVE_SIGNATURES == <<"x", "=", "<", "s", "c", "r", "i", "p", "t", ">", ";", "i", "d", "&", "f", "=", ".", ".", "/", "x", "&", "i", "d", "=", "'", " ", "O", "R", " ", "1", "=", "1", "-", "-", "%", "0", "0">>

CURL == <<"c", "u", "r", "l", "/", "8", ".", "0">>

\* the requests the classification is computed for: with and without a path
\* category, zero to five matched signatures, with and without a scanner
\* user agent (an absent header reads as the empty string)
ProbeRequests ==
  { Request(p, query, ua) :
      p \in {ENV_UPPER, ENV_LOCAL, ADMIN_USERS, PRODUCTS, HEALTH},
      query \in {NO_QUERY, SQLI, TRAVERSAL, SQLI_TRAVERSAL, THREE_SIGNATURES,
                 FIVE_SIGNATURES},
      ua \in {BROWSER, SCANNER, CURL, <<>>} }

\* the response the middleware decides for a plain request of the path
ActionOf(path) ==
  LET q == Request(path, NO_QUERY, BROWSER)
  IN  ResponseFor(q, ClassifyRequest(q))

\* check_monitored_path and get_static_response are called once with a path
\* and with the same path followed by a slash
ProbePath(p) ==
  /\ probe = NoProbe
  /\ probe' = [NoProbe EXCEPT
                 !.op = "path",
                 !.path = p,
                 !.category = check_monitored_path(p),
                 !.category_slash = check_monitored_path(p \o <<"/">>),
                 !.content = get_static_response(p),
                 !.content_slash = get_static_response(p \o <<"/">>),
                 !.action = ActionOf(p),
                 !.action_slash = ActionOf(p \o <<"/">>)]
  /\ UNCHANGED <<webhook, req, result, pc, busy, offered, sink, action, response,
                 alert, posts, logged>>

\* the detectors are called as security_middleware calls them, the layers
\* are applied, and calculate_threat_level is called with the detectors'
\* results
ProbeRequest(q) ==
  LET path_category == check_monitored_path(q.path)
      patterns == analyze_request(FullUrl(q))
      scanner_ua == check_user_agent(q.user_agent)
  IN  /\ probe = NoProbe
      /\ probe' = [NoProbe EXCEPT
                     !.op = "request",
                     !.request = q,
                     !.category = path_category,
                     !.patterns = patterns,
                     !.scanner_ua = scanner_ua,
                     !.result = ClassifyRequest(q),
                     !.level = calculate_threat_level(path_category # None,
                                                      patterns, scanner_ua)]
      /\ UNCHANGED <<webhook, req, result, pc, busy, offered, sink, action,
                     response, alert, posts, logged>>

ProbeNext ==
  \/ \E p \in ProbePaths : ProbePath(p)
  \/ \E q \in ProbeRequests : ProbeRequest(q)

ProbeSpec == Init /\ [][ProbeNext]_vars

(***************************************************************************)
(* Properties                                                              *)
(***************************************************************************)
Arrived(r) == pc[r] # "idle"

\* the detectors' answers for the requests sent, tabulated once
CategoryOf == [p \in Paths |-> check_monitored_path(p)]

DecoyOf == [p \in Paths |-> get_static_response(p)]

ScanOf == [q \in Requests |-> analyze_request(FullUrl(q))]

ScannerOf == [q \in Requests |-> check_user_agent(q.user_agent)]

IsLayer23Indicator(ind) == ind[1] = "sig:" \/ ind = ScannerIndicator

\* C1: a request whose path classifies to a category is classified HIGH,
\* ENDPOINT, with the indicator list exactly [path:<category>], whatever its
\* query and user agent; no sig: or scanner_signature indicator is recorded
\* for it, in the middleware's result or in the event it offers.
C1_ShortCircuit ==
  \A r \in Reqs :
    (Arrived(r) /\ CategoryOf[req[r].path] # None) =>
      LET only == <<PathIndicator(CategoryOf[req[r].path])>>
      IN  /\ result[r].threat_level = HIGH
          /\ result[r].sensor_type = ENDPOINT
          /\ result[r].indicators = only
          /\ \A i \in 1..Len(result[r].indicators) :
               ~IsLayer23Indicator(result[r].indicators[i])
          /\ Len(offered[r]) = 1
          /\ offered[r][1].indicators = only
          /\ offered[r][1].threat_level = HIGH
          /\ offered[r][1].sensor_type = ENDPOINT

\* a monitored path requested with two attack signatures in the URL and a
\* scanner user agent has been answered
C1_Witness ==
  \E r \in Reqs :
    /\ pc[r] = "done"
    /\ CategoryOf[req[r].path] # None
    /\ Len(ScanOf[req[r]]) >= 2
    /\ ScannerOf[req[r]]

\* C2: on a monitored path the decided response is DECOY with exactly the
\* stored content and delay 2 when the decoy table has content for the
\* normalized path, and otherwise TARPIT with delay 5, status 500 and body
\* "Internal Server Error"; that response is the one delivered.
C2_ResponseDecision ==
  \A r \in Reqs :
    (Arrived(r) /\ CategoryOf[req[r].path] # None /\ action[r] # NO_RESPONSE) =>
      /\ IF DecoyOf[req[r].path] # None
           THEN /\ action[r].kind = "DECOY"
                /\ action[r].body = DecoyOf[req[r].path]
                /\ action[r].delay = 2
           ELSE /\ action[r].kind = "TARPIT"
                /\ action[r].delay = 5
                /\ action[r].status = 500
                /\ action[r].body = "Internal Server Error"
      /\ pc[r] = "done" => response[r] = action[r]

\* a decoy has been delivered, and a tarpit for a path that only prefix-matches
C2_Witness ==
  \E a, b \in Reqs :
    /\ pc[a] = "done" /\ response[a].kind = "DECOY"
    /\ pc[b] = "done" /\ response[b].kind = "TARPIT"
    /\ req[b].path = ADMIN_USERS

\* C3: a request whose path has no category is passed through to normal
\* handling: it is never suspended in a delay and its response is never a
\* decoy or a 500, whatever threat level and indicators it produced.
C3_ObservationOnly ==
  \A r \in Reqs :
    (Arrived(r) /\ CategoryOf[req[r].path] = None) =>
      /\ pc[r] # "sleep"
      /\ action[r] # NO_RESPONSE => action[r] = PASS_THROUGH
      /\ pc[r] = "done" => response[r] = PASS_THROUGH

\* a request flagged CRITICAL with a scanner user agent has been passed through
C3_Witness ==
  \E r \in Reqs :
    /\ pc[r] = "done"
    /\ CategoryOf[req[r].path] = None
    /\ result[r].threat_level = CRITICAL
    /\ result[r].indicators[Len(result[r].indicators)] = ScannerIndicator
    /\ response[r] = PASS_THROUGH

\* C4: for a request on an exempted path (the health check) the security
\* pipeline is skipped: no event is offered to the sink, no alert is
\* dispatched and no decoy or tarpit is produced.
C4_Exemption ==
  \A r \in Reqs :
    (Arrived(r) /\ req[r].path = HEALTH_PATH) =>
      /\ offered[r] = <<>>
      /\ sink[r] = "none"
      /\ alert[r] = "none"
      /\ action[r] # NO_RESPONSE => action[r] = PASS_THROUGH

\* C5: the middleware hands the event to the reporter without waiting: while
\* the sink append of a request is outstanding, the request's handler is not
\* held in save_security_event.
C5_DetachedReporting ==
  \A r \in Reqs : sink[r] = "pending" => pc[r] # "save_event"

\* C6: the response does not depend on how reporting ended: two requests with
\* the same inputs get the same action whatever the outcomes of their sink
\* appends and alert deliveries, no action is the server's error response,
\* and the response delivered is the action decided.
C6_FailureIsolation ==
  /\ \A a, b \in Reqs :
       (Arrived(a) /\ Arrived(b) /\ req[a] = req[b]
          /\ action[a] # NO_RESPONSE /\ action[b] # NO_RESPONSE) => action[a] = action[b]
  /\ \A r \in Reqs :
       /\ action[r] # NO_RESPONSE => action[r].kind # "ERROR"
       /\ pc[r] = "done" => response[r] = action[r] /\ response[r] # NO_RESPONSE

\* the same request answered twice, once with append and alert succeeding and
\* once with the append raising and the alert delivery failing
C6_Witness ==
  \E a, b \in Reqs :
    /\ req[a] = req[b]
    /\ pc[a] = "done" /\ sink[a] = "ok" /\ alert[a] = "sent"
    /\ pc[b] = "done" /\ sink[b] = "error" /\ alert[b] = "not_sent" /\ posts[b] = 1

\* C7: every request received is eventually answered, even when the event
\* sink never answers.
C7_EventuallyAnswered ==
  \A r \in Reqs : (pc[r] # "idle") ~> (pc[r] = "done")

\* C8: an alert is dispatched only for a request whose path has a category; a
\* request flagged only by layers 2 and 3 has its event offered to the sink
\* and never gets an alert task or a POST.
C8_AlertOnlyWithCategory ==
  \A r \in Reqs :
    Arrived(r) =>
      /\ (alert[r] # "none" \/ posts[r] > 0) => CategoryOf[req[r].path] # None
      /\ (CategoryOf[req[r].path] = None /\ result[r].indicators # <<>>) =>
           /\ Len(offered[r]) = 1
           /\ alert[r] = "none"
           /\ posts[r] = 0

\* with the webhook configured, a request flagged only by layers 2 and 3 has
\* been answered after its event was appended
C8_Witness ==
  /\ webhook
  /\ \E r \in Reqs :
       /\ pc[r] = "done"
       /\ CategoryOf[req[r].path] = None
       /\ result[r].indicators # <<>>
       /\ sink[r] = "ok"

\* C9: a request causes exactly one sink append attempt when its indicator
\* list is non-empty and none when it is empty; a failed append adds no
\* second attempt.
C9_EventCount ==
  \A r \in Reqs :
    IF Arrived(r)
      THEN Len(offered[r]) = IF result[r].indicators # <<>> THEN 1 ELSE 0
      ELSE offered[r] = <<>>

\* one request answered after its append failed, another answered without indicators
C9_Witness ==
  \E a, b \in Reqs :
    /\ pc[a] = "done" /\ sink[a] = "error" /\ Len(offered[a]) = 1
    /\ pc[b] = "done" /\ result[b].indicators = <<>> /\ offered[b] = <<>>

\* C10: without a path category, n >= 1 matched signatures give CRITICAL when
\* n >= 2 and MEDIUM when n = 1, sensor type PATTERN, and the indicators begin
\* with one sig:<name> per match in scan order.
C10_Layer2Level ==
  \A r \in Reqs :
    (Arrived(r) /\ CategoryOf[req[r].path] = None /\ Len(ScanOf[req[r]]) >= 1) =>
      LET matches == ScanOf[req[r]]
      IN  /\ result[r].threat_level = IF Len(matches) >= 2 THEN CRITICAL ELSE MEDIUM
          /\ result[r].sensor_type = PATTERN
          /\ Len(result[r].indicators) >= Len(matches)
          /\ \A i \in 1..Len(matches) :
               result[r].indicators[i] = SigIndicator(matches[i])

\* one unmonitored request with one match and one with two have been classified
C10_Witness ==
  \E a, b \in Reqs :
    /\ Arrived(a) /\ CategoryOf[req[a].path] = None /\ Len(ScanOf[req[a]]) = 1
    /\ Arrived(b) /\ CategoryOf[req[b].path] = None /\ Len(ScanOf[req[b]]) = 2
    /\ pc[a] = "done" /\ pc[b] = "done"

\* C11: layer 3 never downgrades.  For a request without a path category and
\* with a scanner user agent, scanner_signature is the last indicator, after
\* one sig: indicator per match; the threat level is the one layer 2 assigned
\* (MEDIUM for one match, CRITICAL for more) or LOW when nothing matched; the
\* sensor type is USER_AGENT when layer 2 set none and PATTERN otherwise.
C11_Layer3NeverDowngrades ==
  (probe.op = "request" /\ probe.category = None /\ probe.scanner_ua) =>
    LET indicators == probe.result.indicators
        n == Len(probe.patterns)
    IN  /\ Len(indicators) = n + 1
        /\ indicators[n + 1] = ScannerIndicator
        /\ \A i \in 1..n : indicators[i] = SigIndicator(probe.patterns[i])
        /\ probe.result.threat_level =
             IF n = 0 THEN LOW ELSE IF n = 1 THEN MEDIUM ELSE CRITICAL
        /\ probe.result.sensor_type = IF n = 0 THEN USER_AGENT ELSE PATTERN

\* an unmonitored request with one matched signature and a scanner user agent
\* has been classified and kept MEDIUM
C11_Witness ==
  /\ probe.op = "request"
  /\ probe.category = None
  /\ probe.scanner_ua
  /\ Len(probe.patterns) = 1
  /\ probe.result.threat_level = MEDIUM

\* C12: alert delivery is single-shot and non-fatal.  No request gets more
\* than one POST; a POST that raises, times out or returns another status
\* than 204 ends the task as "not sent", nothing is raised out of
\* send_security_alert, and a task that has ended makes no further POST.
C12_SingleShot ==
  [][\A r \in Reqs :
       /\ posts'[r] <= 1
       /\ alert'[r] # "raised"
       /\ (\E outcome \in PostOutcomes \ {"204"} : AlertAnswer(r, outcome)) =>
            /\ alert'[r] = "not_sent"
            /\ posts'[r] = 1
       /\ alert[r] \in {"sent", "not_sent"} =>
            /\ alert'[r] = alert[r]
            /\ posts'[r] = posts[r]]_vars

\* an alert whose only POST failed, for a request that has been answered
C12_Witness ==
  \E r \in Reqs :
    /\ webhook
    /\ alert[r] = "not_sent"
    /\ posts[r] = 1
    /\ pc[r] = "done"
    /\ response[r].kind \in {"DECOY", "TARPIT"}

\* the response the middleware decides for each request sent, tabulated once
ExpectedAction == [q \in Requests |-> ResponseFor(q, ClassifyRequest(q))]

\* C13: without a webhook no POST is made and the alert task ends as "not
\* sent" without raising; with or without a webhook the request gets the
\* response its path and classification determine.
C13_UnconfiguredChannel ==
  \A r \in Reqs :
    /\ ~webhook =>
         /\ posts[r] = 0
         /\ alert[r] \in {"none", "scheduled", "not_sent"}
    /\ action[r] # NO_RESPONSE => action[r] = ExpectedAction[req[r]]
    /\ pc[r] = "done" => response[r] = ExpectedAction[req[r]]

\* without a webhook, a monitored request has been answered with its decoy
\* after its alert task ended "not sent"
C13_Witness ==
  /\ ~webhook
  /\ \E r \in Reqs :
       /\ pc[r] = "done"
       /\ alert[r] = "not_sent"
       /\ posts[r] = 0
       /\ response[r].kind = "DECOY"

\* the next step of request r: it is received, its event append returns, its
\* delay elapses, its route handler answers or its log append returns
StepOf(r) ==
  \/ \E q \in Requests : Receive(r, q)
  \/ \E outcome \in SinkOutcomes : SinkReturn(r, outcome)
  \/ Wake(r)
  \/ CallNext(r)
  \/ LogReturn(r)

\* C14: delays hold only the issuing connection.  While request a is
\* suspended in its delay, every other unanswered request b whose turn it is
\* (the next to arrive, or already received) can take its next step, unless
\* a third request's Firestore call holds the event loop; an alert task can
\* start as well.
C14_DelaysHoldOnlyIssuer ==
  \A a, b \in Reqs :
    (/\ a # b
     /\ pc[a] = "sleep"
     /\ pc[b] # "done"
     /\ busy \in {0, b}
     /\ pc[b] = "idle" => (IF b = 1 THEN TRUE ELSE pc[b - 1] # "idle")) =>
      /\ ENABLED StepOf(b)
      /\ (alert[b] = "scheduled" /\ busy = 0) => ENABLED AlertStart(b)

\* a request received after another one entered its delay has been
\* classified, reported and answered while the first is still delayed
C14_Witness ==
  \E a, b \in Reqs :
    /\ a < b
    /\ pc[a] = "sleep"
    /\ pc[b] = "done"
    /\ sink[b] = "ok"
    /\ response[b] = ExpectedAction[req[b]]

\* C15: check_monitored_path equals the reference.  With n the path
\* lowercased and stripped of trailing slashes: the category of the key equal
\* to n when there is one, even when an earlier key is a prefix of n;
\* otherwise the category of the first key in table order that is a prefix
\* of n, not the longest one; otherwise none.
C15_ClassifyReference ==
  probe.op = "path" =>
    LET n == RStripSlash(Lower(probe.path))
        keys == 1..Len(MONITORED_PATHS)
        exact == { i \in keys : MONITORED_PATHS[i][1] = n }
        prefixes == { i \in keys : StartsWith(n, MONITORED_PATHS[i][1]) }
        first == CHOOSE i \in prefixes : \A j \in prefixes : i <= j
    IN  probe.category =
          IF exact # {} THEN MONITORED_PATHS[CHOOSE i \in exact : TRUE][2]
          ELSE IF prefixes # {} THEN MONITORED_PATHS[first][2]
          ELSE None

\* /ADMINER// has been classified: it normalizes to the key /adminer, which
\* wins over the earlier key /admin, a prefix of it
C15_Witness ==
  /\ probe.op = "path"
  /\ probe.path = ADMINER_UPPER
  /\ probe.category = "db_interface"

\* C16: trailing-slash invariance.  A path and the same path followed by a
\* slash get the same category, the same decoy content and the same response.
C16_TrailingSlashInvariance ==
  probe.op = "path" =>
    /\ probe.category = probe.category_slash
    /\ probe.content = probe.content_slash
    /\ probe.action = probe.action_slash

\* /.env and /.env/ have been looked up: both get the decoy of /.env
C16_Witness ==
  /\ probe.op = "path"
  /\ probe.path = <<"/", ".", "e", "n", "v">>
  /\ probe.category_slash = "config_file"
  /\ probe.content_slash = "ENV_FIXTURE"
  /\ probe.action_slash.kind = "DECOY"

HasSigIndicator(indicators) ==
  \E i \in 1..Len(indicators) : indicators[i][1] = "sig:"

\* C17: every event offered to the sink is consistent.  Its indicators are
\* not empty; a path category is present exactly when triggered_path is,
\* exactly when the sensor type is ENDPOINT and exactly when the level is
\* HIGH, and then the indicators are [path:<category>]; without a path
\* category the level is MEDIUM or CRITICAL exactly when a sig: indicator is
\* present, then with sensor type PATTERN, and otherwise the level is LOW, the
\* sensor type USER_AGENT and the indicators [scanner_signature].
C17_EventConsistency ==
  \A r \in Reqs : \A i \in 1..Len(offered[r]) :
    LET e == offered[r][i]
        monitored == e.path_category # None
    IN  /\ e.indicators # <<>>
        /\ monitored <=> (e.triggered_path # NonePath)
        /\ monitored <=> (e.sensor_type = ENDPOINT)
        /\ monitored <=> (e.threat_level = HIGH)
        /\ monitored =>
             /\ e.indicators = <<PathIndicator(e.path_category)>>
             /\ e.triggered_path = e.path
        /\ ~monitored =>
             /\ (e.threat_level \in {MEDIUM, CRITICAL}) <=> HasSigIndicator(e.indicators)
             /\ HasSigIndicator(e.indicators) => e.sensor_type = PATTERN
             /\ ~HasSigIndicator(e.indicators) =>
                  /\ e.threat_level = LOW
                  /\ e.sensor_type = USER_AGENT
                  /\ e.indicators = <<ScannerIndicator>>

\* an event of a monitored path and an event of a scanner user agent alone
\* have both been offered
C17_Witness ==
  \E a, b \in Reqs :
    /\ Len(offered[a]) = 1 /\ offered[a][1].path_category # None
    /\ Len(offered[b]) = 1 /\ offered[b][1].indicators = <<ScannerIndicator>>
    /\ sink[a] # "pending" /\ sink[b] # "pending"

\* C18: every key of the monitored table is itself monitored:
\* check_monitored_path called with a key returns the category registered
\* for that key.
C18_KeysMonitored ==
  probe.op = "path" =>
    \A i \in 1..Len(MONITORED_PATHS) :
      probe.path = MONITORED_PATHS[i][1] => probe.category = MONITORED_PATHS[i][2]

\* C19: calculate_threat_level, called with the detectors' results for a
\* request, returns the threat level security_middleware assigns to it.
C19_HelperAgrees ==
  probe.op = "request" => probe.level = probe.result.threat_level

\* a request without path category, with two or more matched signatures and a
\* scanner user agent: both say CRITICAL
C19_Witness ==
  /\ probe.op = "request"
  /\ probe.category = None
  /\ Len(probe.patterns) >= 2
  /\ probe.scanner_ua
  /\ probe.level = CRITICAL
  /\ probe.result.threat_level = CRITICAL

====
